---- MODULE Spec2Model ----
(***************************************************************************)
(* Model of backup.py: the image-backup orchestrator.                      *)
(*                                                                         *)
(* Time is counted in whole days since 2024-01-01 (a Monday).  Names and    *)
(* paths are strings, and the directory is a function from the names of    *)
(* its entries to their last-modified day.                                 *)
(***************************************************************************)
EXTENDS Integers, Sequences, FiniteSets, TLC

VARIABLES
    argc,           \* len(sys.argv)
    pathKind,       \* what sys.argv[1] names: "missing", "file" or "dir"
    prefix,         \* sys.argv[2]
    files,          \* the directory: entry name -> last-modified day
    now,            \* the clock, in days
    ticks,          \* how often the clock has advanced
    run,            \* number of the current run of main()
    prev,           \* summary of the previous run of main()
    pc,             \* position of main()
    seenKind,       \* what the checks of the arguments found the path to be
    backup_filename,
    backup_filename_with_weekday,
    success,
    stdout_output,
    stderr_output,
    cutoff_date,    \* delete_old_images: cutoff_date
    todo,           \* delete_old_images: entries of os.listdir still to visit
    listing,        \* the directory as os.listdir found it
    sweepErr,       \* entries whose visit ended in the except OSError branch
    swept,          \* entries removed by os.remove in this run
    nameCalls,      \* calls of create_backup_filename in this run
    runCalls,       \* arguments of the calls of run_image_backup in this run
    toolEvents,     \* what the tool and the relay did in each of these calls
    results,        \* results returned by run_image_backup in this run
    emails,         \* calls of send_error_email in this run
    trace,          \* the calls made in this run, in order
    exitCode        \* exit status of the run, -1 while it runs

vars == <<argc, pathKind, prefix, files, now, ticks, run, prev, pc,
          seenKind, backup_filename, backup_filename_with_weekday,
          success, stdout_output, stderr_output,
          cutoff_date, todo, listing, sweepErr, swept,
          nameCalls, runCalls, toolEvents, results, emails, trace, exitCode>>

----------------------------------------------------------------------------
(* Bounds of the model *)

MaxTicks == 1
MaxRuns == 2

(* Program constants *)

RetentionDays == 365

----------------------------------------------------------------------------
(* datetime.now().strftime: the calendar *)

IsLeap(y) == (y % 4 = 0 /\ y % 100 # 0) \/ y % 400 = 0

DaysInYear(y) == IF IsLeap(y) THEN 366 ELSE 365

DaysInMonth(m, y) ==
    IF m = 2 THEN (IF IsLeap(y) THEN 29 ELSE 28)
    ELSE IF m \in {4, 6, 9, 11} THEN 30 ELSE 31

RECURSIVE YearFrom(_, _)
YearFrom(d, y) ==
    IF d < DaysInYear(y) THEN y ELSE YearFrom(d - DaysInYear(y), y + 1)

RECURSIVE DayOfYearFrom(_, _)
DayOfYearFrom(d, y) ==
    IF d < DaysInYear(y) THEN d ELSE DayOfYearFrom(d - DaysInYear(y), y + 1)

RECURSIVE MonthFrom(_, _, _)
MonthFrom(d, m, y) ==
    IF d < DaysInMonth(m, y) THEN m ELSE MonthFrom(d - DaysInMonth(m, y), m + 1, y)

YearOf(day) == YearFrom(day, 2024)

MonthOf(day) == MonthFrom(DayOfYearFrom(day, 2024), 1, YearOf(day))

WeekdayNames ==
    <<"Monday", "Tuesday", "Wednesday", "Thursday", "Friday", "Saturday", "Sunday">>

\* a format that also holds the day of the year
DateStrWithDay(day) ==
    ToString(DayOfYearFrom(day, 2024)) \o ToString(YearOf(day))

\* now.strftime("%m%Y"): the month in two digits, then the year
DateStr(day) ==
    (IF MonthOf(day) < 10 THEN "0" \o ToString(MonthOf(day)) ELSE ToString(MonthOf(day)))
    \o ToString(YearOf(day))

\* now.strftime("%A")
WeekdayStr(day) == WeekdayNames[(day % 7) + 1]

----------------------------------------------------------------------------
(* Names and the directory *)

DirPath == "/backups"

SizeHint == ",,1024"

EmptyDir == [n \in {} |-> 0]

\* s.startswith(pre), s.endswith(suf)
StartsWith(s, pre) == Len(s) >= Len(pre) /\ SubSeq(s, 1, Len(pre)) = pre
EndsWith(s, suf) == Len(s) >= Len(suf) /\ SubSeq(s, Len(s) - Len(suf) + 1, Len(s)) = suf

\* os.path.join(path, filename)
Join(path, filename) ==
    IF StartsWith(filename, "/") THEN filename
    ELSE IF path = "" \/ EndsWith(path, "/") THEN path \o filename
    ELSE path \o "/" \o filename

\* the entry of the directory a full path names
EntryOf(full_path) == SubSeq(full_path, Len(DirPath) + 2, Len(full_path))

\* filename.endswith(".img")
EndsWithImg(filename) == EndsWith(filename, ".img")

\* os.path.isdir(path)
IsDir(kind) == kind = "dir"

\* os.path.exists(full_path)
Exists(kind, fs, full_path) == IsDir(kind) /\ EntryOf(full_path) \in DOMAIN fs

\* the image file the tool works on: the path without the size hint
StripHint(full_path) ==
    IF EndsWith(full_path, SizeHint)
    THEN SubSeq(full_path, 1, Len(full_path) - Len(SizeHint))
    ELSE full_path

----------------------------------------------------------------------------
(* The functions of backup.py *)

\* a name whose weekday form lacks the extension
create_backup_filename_no_ext(path, pfx, add_weekday, nowv, kind, fs) ==
    LET date_str == DateStr(nowv)
        filename == IF add_weekday
                    THEN WeekdayStr(nowv) \o "_" \o pfx \o "_" \o date_str
                    ELSE pfx \o "_" \o date_str \o ".img"
        full_path == Join(path, filename)
    IN  IF ~IsDir(kind)
        THEN [raised |-> TRUE, value |-> ""]
        ELSE IF ~Exists(kind, fs, full_path)
        THEN [raised |-> FALSE, value |-> full_path \o SizeHint]
        ELSE [raised |-> FALSE, value |-> full_path]

\* create_backup_filename(path, prefix, add_weekday) called on day nowv with
\* the directory in state (kind, fs): the path returned, or the exception
create_backup_filename(path, pfx, add_weekday, nowv, kind, fs) ==
    LET date_str == DateStr(nowv)
        filename == IF add_weekday
                    THEN WeekdayStr(nowv) \o "_" \o pfx \o "_" \o date_str \o ".img"
                    ELSE pfx \o "_" \o date_str \o ".img"
        full_path == Join(path, filename)
    IN  IF ~IsDir(kind)
        THEN [raised |-> TRUE, value |-> ""]
        ELSE IF ~Exists(kind, fs, full_path)
        THEN [raised |-> FALSE, value |-> full_path \o SizeHint]
        ELSE [raised |-> FALSE, value |-> full_path]

\* a comparison that also takes the file exactly at the cutoff
IsOldInclusive(mtime, cutoff) == mtime <= cutoff

\* delete_old_images: file_creation_time < cutoff_date
IsOld(mtime, cutoff) == mtime < cutoff

\* what the imaging tool and the logger relay can do in one call of
\* run_image_backup: the tool exits with rc having written out and err (and,
\* when it succeeds, the image file), or subprocess.run raises; the relay,
\* used when there is output, ends well, fails or raises
Outputs == {<<"", "">>, <<"a", "x">>}     \* stdout, stderr
RelayEvents(o) == IF o = <<"", "">> THEN {"unused"} ELSE {"ok", "fail", "raise"}
ToolEvents ==
    UNION {{[kind |-> "exit", rc |-> 0, out |-> o[1], err |-> o[2], relay |-> r,
             made |-> TRUE] : r \in RelayEvents(o)} : o \in Outputs}
    \cup
    UNION {{[kind |-> "exit", rc |-> 1, out |-> o[1], err |-> o[2], relay |-> r,
             made |-> FALSE] : r \in RelayEvents(o)} : o \in Outputs}
    \cup
    {[kind |-> k, rc |-> 1, out |-> "", err |-> "", relay |-> "unused", made |-> FALSE]
        : k \in {"notfound", "suberr", "other_exc"}}

\* run_image_backup(backup_filename) when the tool does ev: the tuple
\* returned, or the exception that leaves the function
run_image_backup(ev) ==
    IF ev.kind = "notfound"
    THEN [raised |-> FALSE, success |-> FALSE, stdout |-> "", stderr |-> "not_found"]
    ELSE IF ev.kind = "suberr"
    THEN [raised |-> FALSE, success |-> FALSE, stdout |-> "", stderr |-> "subprocess_error"]
    ELSE IF ev.kind = "other_exc"
    THEN [raised |-> TRUE, success |-> FALSE, stdout |-> "", stderr |-> ""]
    ELSE IF (ev.out # "" \/ ev.err # "") /\ ev.relay = "raise"
    THEN [raised |-> TRUE, success |-> FALSE, stdout |-> "", stderr |-> ""]
    ELSE [raised |-> FALSE, success |-> (ev.rc = 0), stdout |-> ev.out, stderr |-> ev.err]

\* the directory after the tool has run on full_path on day nowv
ToolEffect(ev, full_path, nowv, kind, fs) ==
    IF ev.kind = "exit" /\ ev.made /\ IsDir(kind)
    THEN [n \in DOMAIN fs \cup {EntryOf(StripHint(full_path))} |->
            IF n = EntryOf(StripHint(full_path)) THEN nowv ELSE fs[n]]
    ELSE fs

\* send_error_email(error_message, stdout_output, stderr_output): the mail
\* handed to msmtp; delivery is what became of it. It returns in every case.
Deliveries == {"sent", "failed", "raised"}
send_error_email(error_message, out, err, delivery) ==
    [message |-> error_message, stdout |-> out, stderr |-> err, delivery |-> delivery]

\* checks that leave out the one of the prefix
StartCheckNoPrefix(n, kind, pfx) ==
    IF n # 3 THEN "usage"
    ELSE IF kind = "missing" THEN "path_missing"
    ELSE IF ~IsDir(kind) THEN "not_dir"
    ELSE "ok"

\* main: the checks of the arguments
StartCheck(n, kind, pfx) ==
    IF n # 3 THEN "usage"
    ELSE IF kind = "missing" THEN "path_missing"
    ELSE IF ~IsDir(kind) THEN "not_dir"
    ELSE IF pfx = "" THEN "no_prefix"
    ELSE "ok"

\* a retry whatever the first attempt returned, and no retry at all
NeedFallbackAlways(ok) == TRUE
NeedFallbackNever(ok) == FALSE

\* main: "if not success" after the first attempt
NeedFallback(ok) == ~ok

\* where main goes after a failed first attempt when it sweeps again
AfterPrimarySweepAgain(ok) == IF ok THEN "finish" ELSE "sweep"

\* main: where the run goes after the first attempt
AfterPrimary(ok) == IF NeedFallback(ok) THEN "name_fallback" ELSE "finish"

\* no mail after the attempts, and a mail whatever they returned
NeedAlertNever(ok) == FALSE
NeedAlertAlways(ok) == TRUE

\* main: "if not success" after the attempts
NeedAlert(ok) == ~ok

\* main: the exit status when the try block ends without an exception
ExitAfterAttempts(ok) == 0

----------------------------------------------------------------------------
(* The initial states: the arguments, the clock and the directory *)

StartDays == {668, 669}     \* 2025-10-30 and 2025-10-31

\* how many days old the entries of the directory may be at the start:
\* this month's image (if there is one), another image and a text file
InitAges ==
    [n \in {"db_102025.img", "old.img", "c.txt"} |->
        IF n = "db_102025.img" THEN {10, 366}
        ELSE IF n = "old.img" THEN {365, 366}
        ELSE {366}]

\* the directories main() may find: empty, or holding the other image and
\* the text file, with or without this month's image
InitDirs(day) ==
    {EmptyDir} \cup
    UNION {{[n \in S |-> day - age[n]] : age \in [S -> UNION {InitAges[m] : m \in S}]}
           : S \in {{"old.img", "c.txt"}, {"db_102025.img", "old.img", "c.txt"}}}

NoPrev == [ran |-> FALSE, day |-> 0, primary |-> "", ok |-> FALSE]

\* the state of main() before its first statement
Fresh ==
    /\ pc = "start"
    /\ seenKind = "unseen"
    /\ backup_filename = ""
    /\ backup_filename_with_weekday = ""
    /\ success = FALSE
    /\ stdout_output = ""
    /\ stderr_output = ""
    /\ cutoff_date = 0
    /\ todo = {}
    /\ listing = EmptyDir
    /\ sweepErr = {}
    /\ swept = {}
    /\ nameCalls = <<>>
    /\ runCalls = <<>>
    /\ toolEvents = <<>>
    /\ results = <<>>
    /\ emails = <<>>
    /\ trace = <<>>
    /\ exitCode = -1

Init ==
    /\ argc \in {2, 3}
    /\ pathKind \in {"missing", "file", "dir"}
    /\ prefix \in {"", "db"}
    /\ now \in StartDays
    /\ files \in (IF pathKind = "dir" THEN InitDirs(now) ELSE {EmptyDir})
    /\ \A n \in DOMAIN files : now - files[n] \in InitAges[n]
    /\ ticks = 0
    /\ run = 1
    /\ prev = NoPrev
    /\ Fresh

----------------------------------------------------------------------------
(* Steps shared by the actions *)

\* a mail that is sent once more when its delivery failed
SendMailEscalating(error_message, out, err, delivery, tr) ==
    LET mail == send_error_email(error_message, out, err, delivery) IN
      IF delivery = "sent"
      THEN /\ emails' = Append(emails, mail)
           /\ trace' = Append(tr, "send_error_email")
      ELSE /\ emails' = Append(Append(emails, mail), mail)
           /\ trace' = Append(Append(tr, "send_error_email"), "send_error_email")

\* a call of send_error_email, after the calls tr of this run
SendMail(error_message, out, err, delivery, tr) ==
    /\ emails' = Append(emails, send_error_email(error_message, out, err, delivery))
    /\ trace' = Append(tr, "send_error_email")

\* sys.exit(code), or the end of main()
Terminate(code) ==
    /\ pc' = "done"
    /\ exitCode' = code

\* an except branch that mails but leaves the exit status at 0, and one
\* that exits with 1 without a mail
HandleExceptionExitZero(tr) ==
    /\ \E d \in Deliveries : SendMail("unexpected", "", "", d, tr)
    /\ Terminate(0)
HandleExceptionNoMail(tr) ==
    /\ emails' = emails
    /\ trace' = tr
    /\ Terminate(1)

\* main: the except Exception branch
HandleException(tr) ==
    /\ \E d \in Deliveries : SendMail("unexpected", "", "", d, tr)
    /\ Terminate(1)

locals == <<backup_filename, backup_filename_with_weekday,
            success, stdout_output, stderr_output>>
sweepVars == <<cutoff_date, todo, listing, sweepErr, swept>>
inputs == <<argc, prefix, run, prev>>
clock == <<now, ticks>>

----------------------------------------------------------------------------
(* main() *)

\* the checks of the arguments, up to the try block
Start ==
    /\ pc = "start"
    /\ seenKind' = pathKind
    /\ LET verdict == StartCheck(argc, pathKind, prefix) IN
         IF verdict = "usage"
         THEN /\ Terminate(1)
              /\ UNCHANGED <<emails, trace>>
         ELSE IF verdict = "ok"
         THEN /\ pc' = "name_primary"
              /\ UNCHANGED <<emails, trace, exitCode>>
         ELSE /\ \E d \in Deliveries : SendMail(verdict, "", "", d, trace)
              /\ Terminate(1)
    /\ UNCHANGED <<inputs, clock, pathKind, files, locals, sweepVars,
                   nameCalls, runCalls, toolEvents, results>>

\* backup_filename = create_backup_filename(path, prefix)
NamePrimary ==
    /\ pc = "name_primary"
    /\ LET r == create_backup_filename(DirPath, prefix, FALSE, now, pathKind, files)
           tr == Append(trace, "create_backup_filename")
       IN
         /\ nameCalls' = Append(nameCalls,
                [add_weekday |-> FALSE, date |-> DateStr(now), day |-> now,
                 raised |-> r.raised, value |-> r.value])
         /\ IF r.raised
            THEN /\ HandleException(tr)
                 /\ UNCHANGED backup_filename
            ELSE /\ backup_filename' = r.value
                 /\ pc' = "sweep"
                 /\ trace' = tr
                 /\ UNCHANGED <<emails, exitCode>>
    /\ UNCHANGED <<inputs, clock, pathKind, files, seenKind,
                   backup_filename_with_weekday, success, stdout_output,
                   stderr_output, sweepVars, runCalls, toolEvents, results>>

----------------------------------------------------------------------------
(* delete_old_images(path) *)

\* what can happen to the system calls made for one entry
EntryEvents == {"ok", "stat_error", "remove_error"}

\* a round of the for loop without the try: an OSError leaves the loop
sweep_entry_uncaught(filename, fs, cutoff, ev) ==
    LET kept == [fs |-> fs, failed |-> FALSE, removed |-> FALSE, escaped |-> FALSE]
        thrown == [fs |-> fs, failed |-> TRUE, removed |-> FALSE, escaped |-> TRUE]
    IN  IF ~EndsWithImg(filename) THEN kept
        ELSE IF ev = "stat_error" THEN thrown
        ELSE IF ~IsOld(fs[filename], cutoff) THEN kept
        ELSE IF ev = "remove_error" THEN thrown
        ELSE [fs |-> [n \in DOMAIN fs \ {filename} |-> fs[n]],
              failed |-> FALSE, removed |-> TRUE, escaped |-> FALSE]

\* one round of the for loop, on filename, when the system calls do ev:
\* the directory afterwards, whether the except OSError branch ran, whether
\* the entry was removed, and whether an exception left the loop
sweep_entry(filename, fs, cutoff, ev) ==
    LET kept == [fs |-> fs, failed |-> FALSE, removed |-> FALSE, escaped |-> FALSE]
        caught == [fs |-> fs, failed |-> TRUE, removed |-> FALSE, escaped |-> FALSE]
    IN  IF ~EndsWithImg(filename) THEN kept
        ELSE IF ev = "stat_error" THEN caught
        ELSE IF ~IsOld(fs[filename], cutoff) THEN kept
        ELSE IF ev = "remove_error" THEN caught
        ELSE [fs |-> [n \in DOMAIN fs \ {filename} |-> fs[n]],
              failed |-> FALSE, removed |-> TRUE, escaped |-> FALSE]

\* delete_old_images returns to main, which goes on to the first attempt
SweepReturn(tr) ==
    /\ pc' = "exec_primary"
    /\ trace' = Append(tr, "delete_old_images returns")

\* the isdir check, the cutoff date and os.listdir
SweepBegin ==
    /\ pc = "sweep"
    /\ LET tr == Append(trace, "delete_old_images") IN
         IF ~IsDir(pathKind)
         THEN /\ HandleException(tr)
              /\ UNCHANGED <<sweepVars>>
         ELSE /\ cutoff_date' = now - RetentionDays
              /\ todo' = DOMAIN files
              /\ listing' = files
              /\ IF DOMAIN files = {}
                 THEN SweepReturn(tr)
                 ELSE pc' = "sweep_loop" /\ trace' = tr
              /\ UNCHANGED <<sweepErr, swept, emails, exitCode>>
    /\ UNCHANGED <<inputs, clock, pathKind, files, seenKind, locals,
                   nameCalls, runCalls, toolEvents, results>>

\* one entry of the listing
SweepEntry ==
    /\ pc = "sweep_loop"
    /\ \E filename \in todo, ev \in EntryEvents :
         LET r == sweep_entry(filename, files, cutoff_date, ev)
             tr == IF r.removed THEN Append(trace, "os.remove") ELSE trace
         IN
           /\ files' = r.fs
           /\ sweepErr' = IF r.failed THEN sweepErr \cup {filename} ELSE sweepErr
           /\ swept' = IF r.removed THEN swept \cup {filename} ELSE swept
           /\ todo' = todo \ {filename}
           /\ IF r.escaped
              THEN HandleException(tr)
              ELSE /\ IF todo \ {filename} = {}
                      THEN SweepReturn(tr)
                      ELSE pc' = "sweep_loop" /\ trace' = tr
                   /\ UNCHANGED <<emails, exitCode>>
    /\ UNCHANGED <<inputs, clock, pathKind, seenKind, locals, cutoff_date, listing,
                   nameCalls, runCalls, toolEvents, results>>

----------------------------------------------------------------------------
(* main(): the attempts *)

\* success, stdout_output, stderr_output = run_image_backup(name), and where
\* the run goes from there
Attempt(name, onSuccess, onFailure) ==
    \E ev \in ToolEvents :
      LET r == run_image_backup(ev)
          tr == Append(trace, "run_image_backup")
      IN
        /\ runCalls' = Append(runCalls, name)
        /\ toolEvents' = Append(toolEvents, ev)
        /\ files' = ToolEffect(ev, name, now, pathKind, files)
        /\ IF r.raised
           THEN /\ HandleException(tr)
                /\ UNCHANGED <<success, stdout_output, stderr_output, results>>
           ELSE /\ success' = r.success
                /\ stdout_output' = r.stdout
                /\ stderr_output' = r.stderr
                /\ results' = Append(results,
                      [success |-> r.success, stdout |-> r.stdout, stderr |-> r.stderr])
                /\ pc' = IF r.success THEN onSuccess ELSE onFailure
                /\ trace' = tr
                /\ UNCHANGED <<emails, exitCode>>

\* the first attempt, and "if not success"
ExecutePrimary ==
    /\ pc = "exec_primary"
    /\ Attempt(backup_filename, AfterPrimary(TRUE), AfterPrimary(FALSE))
    /\ UNCHANGED <<inputs, clock, pathKind, seenKind, backup_filename,
                   backup_filename_with_weekday, sweepVars, nameCalls>>

\* a second name made from the instant of the first one
NameFallbackSameNow ==
    /\ pc = "name_fallback"
    /\ LET r == create_backup_filename(DirPath, prefix, TRUE, nameCalls[1].day,
                                       pathKind, files)
           tr == Append(trace, "create_backup_filename")
       IN
         /\ nameCalls' = Append(nameCalls,
                [add_weekday |-> TRUE, date |-> DateStr(nameCalls[1].day), day |-> now,
                 raised |-> r.raised, value |-> r.value])
         /\ IF r.raised
            THEN /\ HandleException(tr)
                 /\ UNCHANGED backup_filename_with_weekday
            ELSE /\ backup_filename_with_weekday' = r.value
                 /\ pc' = "exec_fallback"
                 /\ trace' = tr
                 /\ UNCHANGED <<emails, exitCode>>
    /\ UNCHANGED <<inputs, clock, pathKind, files, seenKind, backup_filename,
                   success, stdout_output, stderr_output, sweepVars,
                   runCalls, toolEvents, results>>

\* backup_filename_with_weekday = create_backup_filename(path, prefix, add_weekday=True)
NameFallback ==
    /\ pc = "name_fallback"
    /\ LET r == create_backup_filename(DirPath, prefix, TRUE, now, pathKind, files)
           tr == Append(trace, "create_backup_filename")
       IN
         /\ nameCalls' = Append(nameCalls,
                [add_weekday |-> TRUE, date |-> DateStr(now), day |-> now,
                 raised |-> r.raised, value |-> r.value])
         /\ IF r.raised
            THEN /\ HandleException(tr)
                 /\ UNCHANGED backup_filename_with_weekday
            ELSE /\ backup_filename_with_weekday' = r.value
                 /\ pc' = "exec_fallback"
                 /\ trace' = tr
                 /\ UNCHANGED <<emails, exitCode>>
    /\ UNCHANGED <<inputs, clock, pathKind, files, seenKind, backup_filename,
                   success, stdout_output, stderr_output, sweepVars,
                   runCalls, toolEvents, results>>

\* the second attempt
ExecuteFallback ==
    /\ pc = "exec_fallback"
    /\ Attempt(backup_filename_with_weekday, "finish", "finish")
    /\ UNCHANGED <<inputs, clock, pathKind, seenKind, backup_filename,
                   backup_filename_with_weekday, sweepVars, nameCalls>>

\* an end of main() whose mail holds the output of both attempts, and one
\* whose mail holds the output of the first attempt
FinishWithBothOutputs ==
    /\ pc = "finish"
    /\ IF NeedAlert(success)
       THEN \E d \in Deliveries :
              SendMail("both_failed", results[1].stdout \o stdout_output,
                       results[1].stderr \o stderr_output, d, trace)
       ELSE UNCHANGED <<emails, trace>>
    /\ Terminate(ExitAfterAttempts(success))
    /\ UNCHANGED <<inputs, clock, pathKind, files, seenKind, locals, sweepVars,
                   nameCalls, runCalls, toolEvents, results>>
FinishWithPrimaryOutput ==
    /\ pc = "finish"
    /\ IF NeedAlert(success)
       THEN \E d \in Deliveries :
              SendMail("both_failed", results[1].stdout, results[1].stderr, d, trace)
       ELSE UNCHANGED <<emails, trace>>
    /\ Terminate(ExitAfterAttempts(success))
    /\ UNCHANGED <<inputs, clock, pathKind, files, seenKind, locals, sweepVars,
                   nameCalls, runCalls, toolEvents, results>>

\* the second "if not success", and the end of main()
Finish ==
    /\ pc = "finish"
    /\ IF NeedAlert(success)
       THEN \E d \in Deliveries :
              SendMail("both_failed", stdout_output, stderr_output, d, trace)
       ELSE UNCHANGED <<emails, trace>>
    /\ Terminate(ExitAfterAttempts(success))
    /\ UNCHANGED <<inputs, clock, pathKind, files, seenKind, locals, sweepVars,
                   nameCalls, runCalls, toolEvents, results>>

----------------------------------------------------------------------------
(* The environment *)

\* the clock has advanced by a day while the imaging tool was running
Tick ==
    /\ ticks < MaxTicks
    /\ pc = "name_fallback"
    /\ now' = now + 1
    /\ ticks' = ticks + 1
    /\ UNCHANGED <<inputs, pathKind, files, pc, seenKind, locals, sweepVars,
                   nameCalls, runCalls, toolEvents, results, emails, trace, exitCode>>

\* the directory disappears before main() looks at it again
DirVanish ==
    /\ pc \in {"name_primary", "sweep", "name_fallback"}
    /\ IsDir(pathKind)
    /\ pathKind' = "missing"
    /\ files' = EmptyDir
    /\ UNCHANGED <<inputs, clock, pc, seenKind, locals, sweepVars,
                   nameCalls, runCalls, toolEvents, results, emails, trace, exitCode>>

\* the scheduler starts main() again, with the same arguments, on the same
\* day or the day after
Restart ==
    /\ pc = "done"
    /\ run < MaxRuns
    /\ run' = run + 1
    /\ \E later \in {0, 1} :
         /\ later = 1 => ticks < MaxTicks
         /\ now' = now + later
         /\ ticks' = ticks + later
    /\ prev' = IF nameCalls # <<>> /\ ~nameCalls[1].raised
               THEN [ran |-> TRUE, day |-> nameCalls[1].day,
                     primary |-> nameCalls[1].value,
                     ok |-> results # <<>> /\ results[1].success]
               ELSE [ran |-> TRUE, day |-> 0, primary |-> "", ok |-> FALSE]
    /\ pc' = "start"
    /\ seenKind' = "unseen"
    /\ backup_filename' = ""
    /\ backup_filename_with_weekday' = ""
    /\ success' = FALSE
    /\ stdout_output' = ""
    /\ stderr_output' = ""
    /\ cutoff_date' = 0
    /\ todo' = {}
    /\ listing' = EmptyDir
    /\ sweepErr' = {}
    /\ swept' = {}
    /\ nameCalls' = <<>>
    /\ runCalls' = <<>>
    /\ toolEvents' = <<>>
    /\ results' = <<>>
    /\ emails' = <<>>
    /\ trace' = <<>>
    /\ exitCode' = -1
    /\ UNCHANGED <<argc, prefix, pathKind, files>>

Next ==
    \/ Start
    \/ NamePrimary
    \/ SweepBegin
    \/ SweepEntry
    \/ ExecutePrimary
    \/ NameFallback
    \/ ExecuteFallback
    \/ Finish
    \/ Tick
    \/ DirVanish

\* one run of main()
Spec == Init /\ [][Next]_vars

NextRuns ==
    \/ Next
    \/ Restart

\* the first of several runs starts on 2025-10-30
InitRuns == Init /\ now = 668

\* runs of main(), one after the other
SpecRuns == InitRuns /\ [][NextRuns]_vars

----------------------------------------------------------------------------
(* Properties *)

\* how often call occurs in tr, and the places where it occurs
Count(tr, call) == Cardinality({i \in DOMAIN tr : tr[i] = call})
Places(tr, call) == {i \in DOMAIN tr : tr[i] = call}

PrimarySucceeded == results # <<>> /\ results[1].success
PrimaryFailed == results # <<>> /\ ~results[1].success
BothFailed == Len(results) = 2 /\ ~results[1].success /\ ~results[2].success

\* C1: when the first call of run_image_backup returns success, that call
\* is the only one of the run and no name with a weekday is derived
C1_SuccessSkipsFallback ==
    PrimarySucceeded =>
        /\ Count(trace, "run_image_backup") = 1
        /\ Len(runCalls) = 1
        /\ Count(trace, "create_backup_filename") = 1
        /\ \A i \in DOMAIN nameCalls : ~nameCalls[i].add_weekday
        /\ pc \in {"finish", "done"}

C1_Witness ==
    pc = "done" /\ PrimarySucceeded /\ Len(runCalls) = 1

\* C2 as stated: when the first call returns failure, the finished run has
\* made exactly one further call, with the name derived with add_weekday=True
C2_ExactlyOneFallbackCall ==
    (pc = "done" /\ PrimaryFailed) =>
        /\ Len(runCalls) = 2
        /\ Len(nameCalls) = 2
        /\ nameCalls[2].add_weekday
        /\ runCalls[2] = nameCalls[2].value

\* C2 as amended: there are never more than two calls; a second call is made
\* only after a failed first one, with the name derived with
\* add_weekday=True; and after a failed first call the run makes the second
\* call unless deriving its name raised, in which case it makes none
C2_AtMostOneFallbackCall ==
    /\ Len(runCalls) <= 2
    /\ Count(trace, "run_image_backup") = Len(runCalls)
    /\ Len(runCalls) = 2 =>
          /\ PrimaryFailed
          /\ Len(nameCalls) = 2
          /\ nameCalls[2].add_weekday
          /\ ~nameCalls[2].raised
          /\ runCalls[2] = nameCalls[2].value
          /\ EndsWith(StripHint(runCalls[2]),
                      WeekdayStr(nameCalls[2].day) \o "_" \o prefix \o "_"
                        \o nameCalls[2].date \o ".img")
    /\ (pc = "done" /\ PrimaryFailed) =>
          \/ Len(runCalls) = 2
          \/ Len(runCalls) = 1 /\ Len(nameCalls) = 2 /\ nameCalls[2].raised

C2_Witness ==
    /\ pc = "done" /\ PrimaryFailed /\ Len(runCalls) = 2
    /\ nameCalls[2].add_weekday /\ runCalls[2] = nameCalls[2].value

\* C3: when both calls return failure, send_error_email is called exactly
\* once, after the second call has returned; no mail goes out between the
\* failure of the first call and the return of the second
C3_OneAlertAfterFallback ==
    /\ pc \in {"name_fallback", "exec_fallback", "finish"} => emails = <<>>
    /\ Count(trace, "send_error_email") = Len(emails)
    /\ (pc = "done" /\ BothFailed) =>
          /\ Len(emails) = 1
          /\ emails[1].message = "both_failed"
          /\ \A i \in Places(trace, "run_image_backup") :
                \A j \in Places(trace, "send_error_email") : i < j

C3_Witness ==
    pc = "done" /\ BothFailed /\ Len(emails) = 1

\* C4: when both attempts fail, the run ends with a non-zero exit status
C4_TotalFailureExitsNonZero ==
    (pc = "done" /\ BothFailed) => exitCode # 0

\* C5: when the first or the second call returns success, no mail is sent
\* and the run ends with exit status 0
C5_SuccessExitsZeroNoAlert ==
    (\E i \in DOMAIN results : results[i].success) =>
        /\ emails = <<>>
        /\ Count(trace, "send_error_email") = 0
        /\ pc = "done" => exitCode = 0
        /\ pc \in {"finish", "done"}

C5_Witness ==
    pc = "done" /\ Len(results) = 2 /\ results[2].success /\ exitCode = 0

\* the checks of the arguments found the path missing, or not a directory,
\* or the prefix empty
PreconditionViolated ==
    seenKind # "unseen" /\ argc = 3 /\ (seenKind # "dir" \/ prefix = "")

\* C6: when the path does not exist or is not a directory or the prefix is
\* empty, the run sends one mail, exits with status 1 and calls none of
\* create_backup_filename, delete_old_images, run_image_backup and os.remove
C6_PreconditionFailureStops ==
    PreconditionViolated =>
        /\ pc = "done"
        /\ exitCode = 1
        /\ Len(emails) = 1
        /\ emails[1].message \in {"path_missing", "not_dir", "no_prefix"}
        /\ trace = <<"send_error_email">>
        /\ nameCalls = <<>> /\ runCalls = <<>> /\ swept = {}

C6_Witness ==
    PreconditionViolated /\ seenKind = "dir" /\ prefix = "" /\ exitCode = 1

\* C7: once run_image_backup has been called, delete_old_images has been
\* called once and has returned, and its call, its return and every
\* os.remove precede the first call of run_image_backup
C7_SweepPrecedesExecution ==
    runCalls # <<>> =>
        /\ Count(trace, "delete_old_images") = 1
        /\ Count(trace, "delete_old_images returns") = 1
        /\ Count(trace, "os.remove") = Cardinality(swept)
        /\ todo = {}
        /\ pc \notin {"sweep", "sweep_loop"}
        /\ \A i \in DOMAIN trace :
              trace[i] \in {"delete_old_images", "os.remove", "delete_old_images returns"}
              => \A j \in Places(trace, "run_image_backup") : i < j

C7_Witness ==
    pc = "done" /\ Len(runCalls) = 2 /\ swept # {}

\* the entries of the listing that end in ".img" and were last modified
\* more than RetentionDays days before the day of the sweep
Expired(day) ==
    {n \in DOMAIN listing : EndsWith(n, ".img") /\ day - listing[n] > RetentionDays}

\* C8: when delete_old_images returns without a failure for any entry, the
\* directory holds the entries it held before except those ending in ".img"
\* that are more than 365 days old, and those are gone
C8_SweepRemovesExactlyExpired ==
    (pc = "exec_primary" /\ sweepErr = {}) =>
        /\ swept = Expired(now)
        /\ DOMAIN files = DOMAIN listing \ Expired(now)
        /\ \A n \in DOMAIN files : files[n] = listing[n]

C8_Witness ==
    /\ pc = "exec_primary" /\ sweepErr = {}
    /\ "db_102025.img" \in swept
    /\ "old.img" \in DOMAIN files /\ now - files["old.img"] = RetentionDays
    /\ "c.txt" \in DOMAIN files /\ now - files["c.txt"] > RetentionDays

\* C9: a failure for one entry does not end the sweep: when
\* delete_old_images returns every entry has been visited and every expired
\* image without a failure is gone; no mail is sent for the failure, and the
\* run goes on to the first attempt
C9_EntryFailureIsAbsorbed ==
    /\ pc = "sweep_loop" => emails = <<>> /\ exitCode = -1
    /\ pc = "exec_primary" =>
          /\ todo = {}
          /\ emails = <<>>
          /\ swept = Expired(now) \ sweepErr
          /\ DOMAIN files = DOMAIN listing \ swept
    /\ (sweepErr # {} /\ pc = "done") =>
          /\ runCalls # <<>>
          /\ runCalls[1] = backup_filename
          /\ \A i \in DOMAIN emails : emails[i].message \in {"both_failed", "unexpected"}
          /\ \A j \in Places(trace, "send_error_email") :
                \E i \in Places(trace, "run_image_backup") : i < j

C9_Witness ==
    pc = "exec_primary" /\ sweepErr # {} /\ swept # {} /\ emails = <<>>

\* two days of the same month of the same year
SameMonth(d1, d2) == MonthOf(d1) = MonthOf(d2) /\ YearOf(d1) = YearOf(d2)

\* C10 as stated: the second of two runs in the same month, after a first
\* run whose first attempt succeeded, gets the same value from
\* create_backup_filename(path, prefix) as the first run
C10_SamePrimaryNameBothRuns ==
    (prev.ran /\ prev.ok /\ nameCalls # <<>> /\ ~nameCalls[1].raised
        /\ SameMonth(nameCalls[1].day, prev.day))
    => nameCalls[1].value = prev.primary

\* C10 as amended: the two values are the same up to the size hint ",,1024"
C10_SamePrimaryNameUpToSizeHint ==
    (prev.ran /\ prev.ok /\ nameCalls # <<>> /\ ~nameCalls[1].raised
        /\ SameMonth(nameCalls[1].day, prev.day))
    => /\ StripHint(nameCalls[1].value) = StripHint(prev.primary)
       /\ EndsWith(StripHint(nameCalls[1].value), ".img")

C10_Witness ==
    /\ prev.ran /\ prev.ok /\ nameCalls # <<>> /\ ~nameCalls[1].raised
    /\ SameMonth(nameCalls[1].day, prev.day)
    /\ ticks > 0 /\ nameCalls[1].day = now
    /\ EndsWith(prev.primary, SizeHint)
    /\ nameCalls[1].value = StripHint(prev.primary)

\* C11 as stated: every path returned by create_backup_filename, and so
\* every path handed to run_image_backup, ends in ".img"
C11_EveryPathEndsInImg ==
    /\ \A i \in DOMAIN nameCalls :
          ~nameCalls[i].raised => EndsWith(nameCalls[i].value, ".img")
    /\ \A i \in DOMAIN runCalls : EndsWith(runCalls[i], ".img")

\* C11 as amended: every path returned ends in ".img" or in ".img,,1024";
\* without the size hint it is <prefix>_<MMYYYY>.img in plain mode and
\* <Weekday>_<prefix>_<MMYYYY>.img in weekday mode, inside the directory;
\* and these are the paths handed to run_image_backup
C11_PathEndsInImgUpToSizeHint ==
    /\ \A i \in DOMAIN nameCalls :
          ~nameCalls[i].raised =>
             LET v == nameCalls[i].value
                 name == (IF nameCalls[i].add_weekday
                          THEN WeekdayStr(nameCalls[i].day) \o "_" ELSE "")
                         \o prefix \o "_" \o DateStr(nameCalls[i].day) \o ".img"
             IN  /\ EndsWith(v, ".img") \/ EndsWith(v, ".img,,1024")
                 /\ v \in {DirPath \o "/" \o name, DirPath \o "/" \o name \o ",,1024"}
    /\ \A i \in DOMAIN runCalls :
          /\ EndsWith(runCalls[i], ".img") \/ EndsWith(runCalls[i], ".img,,1024")
          /\ i \in DOMAIN nameCalls /\ runCalls[i] = nameCalls[i].value

C11_Witness ==
    /\ pc = "done" /\ Len(runCalls) = 2
    /\ EndsWith(runCalls[1], ".img")
    /\ EndsWith(runCalls[2], ".img,,1024")

\* an exception was raised in the try block of this run: by
\* create_backup_filename, by delete_old_images or by run_image_backup
Raised ==
    \/ \E i \in DOMAIN nameCalls : nameCalls[i].raised
    \/ Len(runCalls) > Len(results)
    \/ /\ pc = "done"
       /\ Count(trace, "delete_old_images") > Count(trace, "delete_old_images returns")

\* C12: an exception raised by create_backup_filename, delete_old_images or
\* run_image_backup ends the run in the except branch of main: one mail, the
\* last call of the run, and exit status 1
C12_ExceptionIsCaughtAndAlerted ==
    Raised =>
        /\ pc = "done"
        /\ exitCode = 1
        /\ Len(emails) = 1
        /\ emails[1].message = "unexpected"
        /\ Count(trace, "send_error_email") = 1
        /\ trace[Len(trace)] = "send_error_email"

C12_Witness ==
    /\ pc = "done" /\ seenKind = "dir"
    /\ nameCalls # <<>> /\ nameCalls[1].raised
    /\ exitCode = 1 /\ Len(emails) = 1

\* C13: whenever the tool fails (it exits with a status other than 0, it is
\* not found, or starting it fails in another way) and the relay does not
\* raise, run_image_backup returns, with success = False
C13_FailureIsReturnedAsData ==
    \A i \in DOMAIN toolEvents :
        (toolEvents[i].relay # "raise"
            /\ ~(toolEvents[i].kind = "exit" /\ toolEvents[i].rc = 0))
        => i \in DOMAIN results /\ ~results[i].success

\* C17: when the tool has exited, run_image_backup returns its exit status
\* and output whatever the relay did
C17_RelayDoesNotAffectResult ==
    \A i \in DOMAIN toolEvents :
        toolEvents[i].kind = "exit"
        => /\ i \in DOMAIN results
           /\ results[i] = [success |-> toolEvents[i].rc = 0,
                            stdout |-> toolEvents[i].out,
                            stderr |-> toolEvents[i].err]

\* t is a part of s
Contains(s, t) ==
    \E i \in 0..(Len(s) - Len(t)) : SubSeq(s, i + 1, i + Len(t)) = t

\* C14 as stated: when both calls return failure, the output sections of the
\* mail hold the output of the first call as well as that of the second
C14_AlertCarriesBothOutputs ==
    (pc = "done" /\ BothFailed) =>
        /\ Len(emails) = 1
        /\ \A i \in {1, 2} :
              /\ Contains(emails[1].stdout, results[i].stdout)
              /\ Contains(emails[1].stderr, results[i].stderr)

\* C14: when both calls return failure, the one mail says that both attempts
\* failed, and its output sections hold nothing of the first call's output
\* beyond what the second call's output holds
C14_AlertNamesBothCarriesFallback ==
    (pc = "done" /\ BothFailed) =>
        /\ Len(emails) = 1
        /\ emails[1].message = "both_failed"
        /\ Contains(emails[1].stdout, results[1].stdout)
              => Contains(results[2].stdout, results[1].stdout)
        /\ Contains(emails[1].stderr, results[1].stderr)
              => Contains(results[2].stderr, results[1].stderr)

C14_Witness ==
    /\ pc = "done" /\ BothFailed /\ Len(emails) = 1
    /\ results[1].stdout = "a" /\ results[2].stdout = ""
    /\ emails[1].message = "both_failed" /\ emails[1].stdout = ""

\* C15: when both calls return failure, the stdout and stderr given to
\* send_error_email are those returned by the second call
C15_AlertOutputIsFallbackOutput ==
    (pc = "done" /\ BothFailed) =>
        /\ Len(emails) = 1
        /\ emails[1].stdout = results[2].stdout
        /\ emails[1].stderr = results[2].stderr

C15_Witness ==
    /\ pc = "done" /\ BothFailed /\ Len(emails) = 1
    /\ results[1].stderr = "not_found" /\ results[2].stderr = "x"
    /\ emails[1].stdout = "a" /\ emails[1].stderr = "x"

\* the file name with weekday for the instant day
WeekdayEntry(day) ==
    WeekdayStr(day) \o "_" \o prefix \o "_" \o DateStr(day) \o ".img"

\* C16 as stated: the second name has the date component of the first one
\* and the weekday of the instant of the first one
C16_FallbackNameFromPrimaryInstant ==
    (Len(nameCalls) = 2 /\ ~nameCalls[2].raised) =>
        StripHint(nameCalls[2].value) = Join(DirPath, WeekdayEntry(nameCalls[1].day))

\* C16: the second name is made from the same directory and prefix and from
\* the clock as it is when the second name is made; it is the first name with
\* that day's weekday in front when both instants are in the same month
C16_FallbackNameFromOwnInstant ==
    (Len(nameCalls) = 2 /\ ~nameCalls[2].raised) =>
        /\ nameCalls[2].day >= nameCalls[1].day
        /\ StripHint(nameCalls[2].value) = Join(DirPath, WeekdayEntry(nameCalls[2].day))
        /\ SameMonth(nameCalls[1].day, nameCalls[2].day) =>
              EntryOf(StripHint(nameCalls[2].value))
                 = WeekdayStr(nameCalls[2].day) \o "_"
                      \o EntryOf(StripHint(nameCalls[1].value))

C16_Witness ==
    /\ Len(nameCalls) = 2 /\ ~nameCalls[2].raised
    /\ ~SameMonth(nameCalls[1].day, nameCalls[2].day)
    /\ nameCalls[1].value = "/backups/db_102025.img"
    /\ nameCalls[2].value = "/backups/Saturday_db_112025.img,,1024"

\* C18: a mail that is not delivered changes nothing: there is one call of
\* send_error_email, nothing is called after it, and the exit status is the
\* one its message goes with
C18_DeliveryFailureIsNotEscalated ==
    (pc = "done" /\ emails # <<>>) =>
        /\ Len(emails) = 1
        /\ Count(trace, "send_error_email") = 1
        /\ trace[Len(trace)] = "send_error_email"
        /\ exitCode = IF emails[1].message = "both_failed"
                      THEN ExitAfterAttempts(FALSE) ELSE 1

C18_Witness ==
    /\ pc = "done" /\ Len(emails) = 1 /\ emails[1].delivery = "raised"
    /\ emails[1].message = "both_failed" /\ Len(runCalls) = 2

\* C19 as stated: when run_image_backup is about to be called with a first
\* name without the size hint, the file is in the directory
C19_FileExistsWithoutSizeHint ==
    (pc = "exec_primary" /\ ~EndsWith(backup_filename, SizeHint))
        => Exists(pathKind, files, backup_filename)

\* C20: send_error_email is called at most once in a run, and once in every
\* run that ends with exit status 1 and had the right number of arguments
C20_AtMostOneAlertAndOneOnExitOne ==
    /\ Len(emails) <= 1
    /\ Count(trace, "send_error_email") = Len(emails)
    /\ (pc = "done" /\ exitCode = 1 /\ argc = 3) => Len(emails) = 1
    /\ argc # 3 => emails = <<>>

C20_Witness ==
    /\ pc = "done" /\ exitCode = 1 /\ argc = 3 /\ Len(emails) = 1
    /\ Len(runCalls) = 1 /\ results = <<>>

====
